---- MODULE Spec2Model ----
(***************************************************************************)
(* Model of git/repository.go of gitin: Open (loadBranches, loadCommits),  *)
(* Diff and DiffFromHash, run against an object store (libgit2) whose      *)
(* contents and failures are the environment.                              *)
(*                                                                         *)
(* Go values are modelled as follows.  A pointer is a sequence of length   *)
(* 0 (nil) or 1.  A slice is a record [isNil, elems].  A hex string is a   *)
(* sequence of hex digits 0..15.  An object id is a natural number; the    *)
(* store holds the commits 1..n in a linear history, commit k having the   *)
(* single parent k-1 and commit 1 being the root.                          *)
(***************************************************************************)
EXTENDS Integers, Sequences, FiniteSets, TLC

VARIABLES store, opened, diffOut, hashOut

vars == <<store, opened, diffOut, hashOut>>

(* ------------------------------ bounds -------------------------------- *)
MaxCommits == 2
MaxBranches == 2
MaxDeltas == 2
HexLen == 2

(* ------------------------- hex strings and oids ----------------------- *)
RECURSIVE Pow16(_)
Pow16(k) == IF k = 0 THEN 1 ELSE 16 * Pow16(k - 1)

\* Oid.String(): the fixed-width big-endian hex form of an object id.
OidString(oid) == [i \in 1..HexLen |-> (oid \div Pow16(HexLen - i)) % 16]

RECURSIVE HexValue(_)
HexValue(s) == IF Len(s) = 0 THEN 0
               ELSE 16 * HexValue(SubSeq(s, 1, Len(s) - 1)) + s[Len(s)]

\* lib.NewOid(s): fails on a string that is not HexLen hex digits.
NewOid(s) ==
    IF Len(s) # HexLen \/ \E i \in 1..Len(s) : s[i] \notin 0..15
    THEN [err |-> TRUE, oid |-> 0]
    ELSE [err |-> FALSE, oid |-> HexValue(s)]

(* ------------------------------ the store ----------------------------- *)
LocalNames == {"refs/heads/main", "refs/heads/dev"}
RemoteNames == {"refs/remotes/origin/main"}

\* branch.Name(): the short name of a reference.
ShortName(fullname) ==
    CASE fullname = "refs/heads/main" -> "main"
      [] fullname = "refs/heads/dev" -> "dev"
      [] fullname = "refs/remotes/origin/main" -> "origin/main"

\* The references the store can hold over the commits 1..n.  Only a local
\* branch can have an upstream configured (branch.Upstream()).
StoreBranch(n) ==
    { [fullname |-> fn, target |-> t, isRemote |-> fn \in RemoteNames, upstream |-> u] :
        fn \in LocalNames \cup RemoteNames, t \in 1..n,
        u \in {<<>>} \cup {<<x>> : x \in RemoteNames} }

\* The branch iterator's order: any sequence of distinct references; a
\* configured upstream names a remote-tracking branch the store holds.
BranchSeqs(n) ==
    { bs \in UNION { [1..k -> StoreBranch(n)] : k \in 0..MaxBranches } :
        /\ \A i, j \in 1..Len(bs) : i # j => bs[i].fullname # bs[j].fullname
        /\ \A i \in 1..Len(bs) :
              /\ bs[i].isRemote => bs[i].upstream = <<>>
              /\ bs[i].upstream # <<>> =>
                    \E j \in 1..Len(bs) : bs[j].fullname = bs[i].upstream[1] }

\* HEAD: symbolic to a local branch of the store, or detached at a commit.
\* With no commit HEAD names a branch that is not born yet.
Heads(n, bs) ==
    IF n = 0 THEN { [ref |-> "refs/heads/main", oid |-> 0] }
    ELSE { [ref |-> "detached", oid |-> t] : t \in 1..n }
         \cup { [ref |-> bs[i].fullname, oid |-> bs[i].target] :
                  i \in { j \in 1..Len(bs) : ~bs[j].isRemote } }

DiffPre == {"none", "ctree", "ptree", "opts", "diff", "stats", "statstext", "numdeltas"}
DeltaOutcome == {"ok", "patchErr", "deltaErr", "textErr", "freeErr"}

\* What the store does on a tree-to-tree diff: the step before the loop
\* that fails (if any) and, per delta index, the first step that fails.
DiffProfiles ==
    { [pre |-> "none", outcomes |-> o] :
        o \in UNION { [1..k -> DeltaOutcome] : k \in 0..MaxDeltas } }
    \cup { [pre |-> p, outcomes |-> <<"ok">>] : p \in DiffPre }

CleanProfile == [pre |-> "none", outcomes |-> <<"ok">>]

\* Stores with every branch layout and a diff that never fails.
LayoutsOf(n) ==
    UNION { { [n |-> n, branches |-> bs, head |-> h, diff |-> CleanProfile] :
                h \in Heads(n, bs) } : bs \in BranchSeqs(n) }

LoadStores == UNION { LayoutsOf(n) : n \in 0..MaxCommits }

\* Stores with a detached HEAD at the newest commit, no branch, and every
\* diff profile.
DiffStores ==
    { [n |-> n, branches |-> <<>>, head |-> [ref |-> "detached", oid |-> n], diff |-> p] :
        n \in 1..MaxCommits, p \in DiffProfiles }

\* The failures the store can answer the calls of one Open with.
\* branchAt = j > 0: the callback of the j-th branch fails, reading its name
\* (branchKind "name") or resolving its symbolic target ("resolve").
\* walkStop = k: the history walk stops with an error after k commits, when
\* the walk is longer than k.
LoadFaults(st) ==
    [ open : BOOLEAN, iter : BOOLEAN,
      branchAt : 0..Len(st.branches), branchKind : {"name", "resolve"},
      head : BOOLEAN, walker : BOOLEAN, push : BOOLEAN, walkStop : 0..st.n ]

\* The reference of the store with a full name.
StoreRef(st, fullname) ==
    LET j == CHOOSE j \in 1..Len(st.branches) : st.branches[j].fullname = fullname
    IN  st.branches[j]

(* ------------------------------ Go values ----------------------------- *)
NilSlice == [isNil |-> TRUE, elems |-> <<>>]
MakeSlice(elems) == [isNil |-> FALSE, elems |-> elems]

(* ----------------------------- loadBranches --------------------------- *)
\* ResolveUpstream with the partial Branch taking the flag of the branch
\* it is built for instead of being marked remote.
ResolveUpstream_CopyFlag(st, sb) ==
    IF ~sb.isRemote
    THEN IF sb.upstream = <<>>
         THEN <<>>
         ELSE << [ Name |-> "", FullName |-> sb.upstream[1],
                   Hash |-> OidString(StoreRef(st, sb.upstream[1]).target),
                   isRemote |-> sb.isRemote, Upstream |-> <<>> ] >>
    ELSE <<>>

\* The upstream of a branch: nil for a remote branch and for a local branch
\* whose upstream is missing, else a partial Branch marked remote.
ResolveUpstream(st, sb) ==
    IF ~sb.isRemote
    THEN IF sb.upstream = <<>>
         THEN <<>>
         ELSE << [ Name |-> "", FullName |-> sb.upstream[1],
                   Hash |-> OidString(StoreRef(st, sb.upstream[1]).target),
                   isRemote |-> TRUE, Upstream |-> <<>> ] >>
    ELSE <<>>

\* The Branch the ForEach callback appends for a reference of the store.
MakeBranch(st, sb) ==
    [ Name |-> ShortName(sb.fullname), FullName |-> sb.fullname,
      Hash |-> OidString(sb.target), isRemote |-> sb.isRemote,
      Upstream |-> ResolveUpstream(st, sb) ]

\* branchIter.ForEach from the j-th reference on: the branches appended and
\* the step of the callback that failed, if one did.
RECURSIVE ForEachBranch(_, _, _, _)
ForEachBranch(st, f, j, bs) ==
    IF j > Len(st.branches) THEN [failed |-> {}, bs |-> bs]
    ELSE IF f.branchAt = j THEN [failed |-> {f.branchKind}, bs |-> bs]
    ELSE ForEachBranch(st, f, j + 1, Append(bs, MakeBranch(st, st.branches[j])))

\* loadBranches: r.Branches is assigned whatever ForEach returns; the
\* iterator is freed by the deferred call.
loadBranches(st, f) ==
    IF f.iter
    THEN [failed |-> {"iter"}, Branches |-> NilSlice, live |-> {}]
    ELSE LET it == ForEachBranch(st, f, 1, <<>>)
         IN  [failed |-> it.failed, Branches |-> MakeSlice(it.bs), live |-> {}]

(* ------------------------------ loadCommits --------------------------- *)
\* The Commit the walk callback appends for a commit of the store.
WalkedCommit(oid) ==
    [ commit |-> <<oid>>, Hash |-> OidString(oid), Author |-> <<oid>>,
      Message |-> <<"message", oid>>, Summary |-> <<"summary", oid>>, Type |-> "" ]

\* The loop over r.Branches: the last branch whose Hash is HEAD's.
CurrentBranch(branches, headHash) ==
    LET hits == { i \in 1..Len(branches) : branches[i].Hash = headHash }
    IN  IF hits = {} THEN <<>>
        ELSE << branches[CHOOSE i \in hits : \A k \in hits : k <= i] >>

\* walk.Iterate from a pushed commit: the commits the callback received
\* before the walk ended, and whether it ended with an error.
Iterate(st, f, seed) ==
    LET full == [i \in 1..seed |-> WalkedCommit(seed - i + 1)]
    IN  IF f.walkStop < Len(full)
        THEN [err |-> TRUE, cs |-> SubSeq(full, 1, f.walkStop)]
        ELSE [err |-> FALSE, cs |-> full]

\* The oid loadCommits pushes: the parsed Hash of the current branch's
\* Upstream, or HEAD's target when there is no current branch.  Reading
\* Upstream.Hash through a nil Upstream panics.
WalkSeed(st, current) ==
    IF current # <<>>
    THEN IF current[1].Upstream = <<>>
         THEN [outcome |-> "panic", oid |-> 0]
         ELSE LET p == NewOid(current[1].Upstream[1].Hash)
              IN  IF p.err THEN [outcome |-> "parse", oid |-> 0]
                  ELSE [outcome |-> "ok", oid |-> p.oid]
    ELSE [outcome |-> "ok", oid |-> st.head.oid]

\* loadCommits on the branches loadBranches left.  The walker is freed by
\* a defer that is registered only after the seed was pushed.
loadCommits(st, f, branches) ==
    LET none == [err |-> "error", Commits |-> NilSlice, seed |-> <<>>,
                 current |-> <<>>, live |-> {}, failed |-> {}]
    IN  IF f.head \/ st.n = 0 THEN [none EXCEPT !.failed = {"head"}]
        ELSE IF f.walker THEN [none EXCEPT !.failed = {"walker"}]
        ELSE LET current == CurrentBranch(branches.elems, OidString(st.head.oid))
                 s == WalkSeed(st, current)
                 got == [none EXCEPT !.current = current, !.live = {"walker"}]
             IN  IF s.outcome = "panic" THEN [got EXCEPT !.err = "panic"]
                 ELSE IF s.outcome = "parse" THEN [got EXCEPT !.failed = {"parse"}]
                 ELSE IF f.push THEN [got EXCEPT !.failed = {"push"}]
                 ELSE LET it == Iterate(st, f, s.oid)
                      IN  [ err |-> "nil", Commits |-> MakeSlice(it.cs),
                            seed |-> <<s.oid>>, current |-> current, live |-> {},
                            failed |-> IF it.err THEN {"walk"} ELSE {} ]

(* --------------------------------- Open ------------------------------- *)
\* Open: the returned error ("nil", "error", or "panic" when the call does
\* not return), the returned *Repository (nil or one element), the fields
\* of the Repository object as the load steps left them, the steps that
\* failed, the commit the walk was seeded with and the handles still held.
Open(st, f) ==
    LET r0 == [Branches |-> NilSlice, Commits |-> NilSlice]
        res0 == [called |-> TRUE, err |-> "error", repo |-> <<>>, r |-> r0,
                 failed |-> {}, seed |-> <<>>, current |-> <<>>, live |-> {}]
    IN  IF f.open THEN [res0 EXCEPT !.failed = {"open"}]
        ELSE LET lb == loadBranches(st, f)
                 r1 == [r0 EXCEPT !.Branches = lb.Branches]
             IN  IF lb.failed # {}
                 THEN [res0 EXCEPT !.r = r1, !.failed = lb.failed, !.live = lb.live]
                 ELSE LET lc == loadCommits(st, f, r1.Branches)
                          r2 == IF lc.err = "nil"
                                THEN [r1 EXCEPT !.Commits = lc.Commits] ELSE r1
                      IN  [ called |-> TRUE, err |-> lc.err,
                            repo |-> IF lc.err = "nil" THEN <<r2>> ELSE <<>>,
                            r |-> r2, failed |-> lc.failed, seed |-> lc.seed,
                            current |-> lc.current, live |-> lb.live \cup lc.live ]

NotOpened ==
    [ called |-> FALSE, err |-> "nil", repo |-> <<>>,
      r |-> [Branches |-> NilSlice, Commits |-> NilSlice],
      failed |-> {}, seed |-> <<>>, current |-> <<>>, live |-> {} ]

(* --------------------------------- Diff ------------------------------- *)
\* strings.Split(s, sep) on a string given as a sequence of characters.
RECURSIVE Split(_, _)
Split(s, sep) ==
    LET at == { j \in 1..Len(s) : s[j] = sep }
    IN  IF at = {} THEN <<s>>
        ELSE LET j == CHOOSE j \in at : \A k \in at : j <= k
             IN  <<SubSeq(s, 1, j - 1)>> \o Split(SubSeq(s, j + 1, Len(s)), sep)

\* commit.ParentCount() in the linear history.
ParentCount(oid) == IF oid > 1 THEN 1 ELSE 0

\* stats.String(): one line per file delta of the store's diff and a
\* summary line, each ended by a newline.
RECURSIVE StatsText(_, _, _)
StatsText(oid, i, k) ==
    IF i >= k THEN <<"changed", ToString(k), "in", ToString(oid), "\n">>
    ELSE <<"file", ToString(i), "\n">> \o StatsText(oid, i + 1, k)

\* patch.String(): the unified diff text of delta i of a commit's diff.
PatchText(oid, i) == <<"patch", ToString(oid), ToString(i)>>

\* The DiffDelta Diff builds from diff.GetDelta(i): a root commit adds
\* every file (empty old path, zero old hash), a later commit modifies it.
MakeDelta(oid, i) ==
    [ Status |-> IF ParentCount(oid) = 0 THEN 1 ELSE 3,
      NewFile |-> [Path |-> <<"file", ToString(i)>>, Hash |-> OidString(16 * oid + i)],
      OldFile |-> IF ParentCount(oid) = 0
                  THEN [Path |-> <<>>, Hash |-> OidString(0)]
                  ELSE [Path |-> <<"file", ToString(i)>>,
                        Hash |-> OidString(16 * (oid - 1) + i)],
      Patch |-> <<>> ]

\* DiffStep with a failed delta lookup or text conversion ending the call.
DiffStep_AbortOnSkip(acc, oid, i, outcome) ==
    LET in == [acc EXCEPT !.processed = @ \cup {i}]
        held == [in EXCEPT !.live = @ \cup {<<"patch", i>>}]
        d == [MakeDelta(oid, i) EXCEPT !.Patch = PatchText(oid, i)]
        added == [held EXCEPT !.ddeltas = Append(@, d),
                              !.patchs = Append(@, PatchText(oid, i))]
    IN  CASE outcome = "patchErr" -> in
          [] outcome = "deltaErr" -> [held EXCEPT !.err = TRUE]
          [] outcome = "textErr" -> [held EXCEPT !.err = TRUE]
          [] outcome = "freeErr" -> [added EXCEPT !.err = TRUE]
          [] outcome = "ok" -> [added EXCEPT !.live = @ \ {<<"patch", i>>}]

\* DiffStep with the patch text appended before the delta lookup is checked.
DiffStep_PatchBeforeDelta(acc, oid, i, outcome) ==
    LET in == [acc EXCEPT !.processed = @ \cup {i}]
        held == [in EXCEPT !.live = @ \cup {<<"patch", i>>}]
        d == [MakeDelta(oid, i) EXCEPT !.Patch = PatchText(oid, i)]
        added == [held EXCEPT !.ddeltas = Append(@, d),
                              !.patchs = Append(@, PatchText(oid, i))]
    IN  CASE outcome = "patchErr" -> in
          [] outcome = "deltaErr" -> [held EXCEPT !.patchs = Append(@, PatchText(oid, i))]
          [] outcome = "textErr" -> held
          [] outcome = "freeErr" -> [added EXCEPT !.err = TRUE]
          [] outcome = "ok" -> [added EXCEPT !.live = @ \ {<<"patch", i>>}]

\* DiffStep with a failed patch.Free skipped over like a failed extraction.
DiffStep_FreeSkipped(acc, oid, i, outcome) ==
    LET in == [acc EXCEPT !.processed = @ \cup {i}]
        held == [in EXCEPT !.live = @ \cup {<<"patch", i>>}]
        d == [MakeDelta(oid, i) EXCEPT !.Patch = PatchText(oid, i)]
        added == [held EXCEPT !.ddeltas = Append(@, d),
                              !.patchs = Append(@, PatchText(oid, i))]
    IN  CASE outcome = "patchErr" -> in
          [] outcome = "deltaErr" -> held
          [] outcome = "textErr" -> held
          [] outcome = "freeErr" -> added
          [] outcome = "ok" -> [added EXCEPT !.live = @ \ {<<"patch", i>>}]

\* One iteration of the loop over the delta indices, on the store's answer
\* for index i.  acc carries ddeltas, patchs, the patch handles not freed,
\* the indices the loop reached and the error that ended the call.
DiffStep(acc, oid, i, outcome) ==
    LET in == [acc EXCEPT !.processed = @ \cup {i}]
        held == [in EXCEPT !.live = @ \cup {<<"patch", i>>}]
        d == [MakeDelta(oid, i) EXCEPT !.Patch = PatchText(oid, i)]
        added == [held EXCEPT !.ddeltas = Append(@, d),
                              !.patchs = Append(@, PatchText(oid, i))]
    IN  CASE outcome = "patchErr" -> in
          [] outcome = "deltaErr" -> held
          [] outcome = "textErr" -> held
          [] outcome = "freeErr" -> [added EXCEPT !.err = TRUE]
          [] outcome = "ok" -> [added EXCEPT !.live = @ \ {<<"patch", i>>}]

\* for i := 0; i < deltas; i++, left by the return on a failed patch.Free.
RECURSIVE DiffLoop(_, _, _, _)
DiffLoop(acc, oid, i, outcomes) ==
    IF i >= Len(outcomes) \/ acc.err THEN acc
    ELSE DiffLoop(DiffStep(acc, oid, i, outcomes[i + 1]), oid, i + 1, outcomes)

\* Diff(c): the returned error, the returned *Diff (nil or one element),
\* the handles acquired and not released at the return, the delta indices
\* the loop reached and whether the loop was entered.  Trees and the diff
\* object are released by defers; a patch only by the call in the loop.
Diff(st, c) ==
    LET fail == [err |-> "error", diff |-> <<>>, live |-> {}, processed |-> {},
                 looped |-> FALSE]
        pre == st.diff.pre
    IN  IF c.commit = <<>> THEN [fail EXCEPT !.err = "panic"]
        ELSE LET oid == c.commit[1]
                 k == Len(st.diff.outcomes)
                 acquired == {<<"cTree", 0>>, <<"diff", 0>>}
                               \cup IF ParentCount(oid) > 0 THEN {<<"pTree", 0>>} ELSE {}
                 deferred == acquired
                 acc == DiffLoop([ddeltas |-> <<>>, patchs |-> <<>>, live |-> {},
                                  processed |-> {}, err |-> FALSE],
                                 oid, 0, st.diff.outcomes)
                 live == (acquired \cup acc.live) \ deferred
             IN  IF pre = "ctree" THEN fail
                 ELSE IF ParentCount(oid) > 0 /\ pre = "ptree" THEN fail
                 ELSE IF pre \in {"opts", "diff", "stats", "statstext", "numdeltas"}
                      THEN fail
                 ELSE IF acc.err
                      THEN [fail EXCEPT !.live = live, !.processed = acc.processed,
                                        !.looped = TRUE]
                 ELSE [ err |-> "nil",
                        diff |-> << [ deltas |-> acc.ddeltas,
                                      stats |-> Split(StatsText(oid, 0, k), "\n"),
                                      patchs |-> acc.patchs ] >>,
                        live |-> live, processed |-> acc.processed, looped |-> TRUE ]

\* r.repo.LookupCommit(oid): the store holds the commits 1..n.
LookupCommit(st, oid) ==
    IF oid \in 1..st.n THEN [err |-> FALSE, commit |-> <<oid>>]
    ELSE [err |-> TRUE, commit |-> <<>>]

\* DiffFromHash passing Diff a Commit that carries the hash and no handle.
DiffFromHash_NoHandle(st, hash) ==
    LET fail == [err |-> "error", diff |-> <<>>, live |-> {}, processed |-> {},
                 looped |-> FALSE]
        p == NewOid(hash)
        c == LookupCommit(st, p.oid)
    IN  IF p.err THEN fail
        ELSE IF c.err THEN fail
        ELSE Diff(st, [ commit |-> <<>>, Hash |-> hash, Author |-> <<>>,
                        Message |-> <<>>, Summary |-> <<>>, Type |-> "" ])

\* DiffFromHash(hash): Diff on a Commit that holds the handle only.
DiffFromHash(st, hash) ==
    LET fail == [err |-> "error", diff |-> <<>>, live |-> {}, processed |-> {},
                 looped |-> FALSE]
        p == NewOid(hash)
        c == LookupCommit(st, p.oid)
    IN  IF p.err THEN fail
        ELSE IF c.err THEN fail
        ELSE Diff(st, [ commit |-> c.commit, Hash |-> <<>>, Author |-> <<>>,
                        Message |-> <<>>, Summary |-> <<>>, Type |-> "" ])

NoCall ==
    [ called |-> FALSE, hash |-> <<>>,
      res |-> [err |-> "nil", diff |-> <<>>, live |-> {}, processed |-> {},
               looped |-> FALSE] ]

\* Hashes a caller can pass that name no commit: a short string, a string
\* with a character that is no hex digit, and the id of an absent object.
BadHashes(st) ==
    { <<>>, [i \in 1..HexLen |-> 16], OidString(st.n + 1) }

(* --------------------------- the state machine ------------------------ *)
Init ==
    /\ store \in LoadStores \cup DiffStores
    /\ opened = NotOpened
    /\ diffOut = NoCall
    /\ hashOut = NoCall

\* A caller opens the repository; the store answers with some failures.
OpenCall ==
    /\ ~opened.called
    /\ \E f \in LoadFaults(store) : opened' = Open(store, f)
    /\ UNCHANGED <<store, diffOut, hashOut>>

\* A caller diffs one of the walked commits of the opened repository.
DiffCall ==
    /\ opened.repo # <<>>
    /\ \E i \in 1..Len(opened.repo[1].Commits.elems) :
          LET c == opened.repo[1].Commits.elems[i]
          IN  diffOut' = [called |-> TRUE, hash |-> c.Hash, res |-> Diff(store, c)]
    /\ UNCHANGED <<store, opened, hashOut>>

\* A caller diffs by hash: the hash of a walked commit, or a bad one.
DiffFromHashCall ==
    /\ opened.repo # <<>>
    /\ \E h \in { opened.repo[1].Commits.elems[i].Hash :
                    i \in 1..Len(opened.repo[1].Commits.elems) } \cup BadHashes(store) :
          hashOut' = [called |-> TRUE, hash |-> h, res |-> DiffFromHash(store, h)]
    /\ UNCHANGED <<store, opened, diffOut>>

Next == OpenCall \/ DiffCall \/ DiffFromHashCall

Spec == Init /\ [][Next]_vars

(* ------------------------------ properties ---------------------------- *)
LoadedBranches == opened.r.Branches.elems
HeadHash == OidString(store.head.oid)

\* Open got as far as seeding the walk and no seeding step failed.
SeedingDone == opened.called /\ opened.failed \subseteq {"walk"}

Outcomes == store.diff.outcomes
ExtractionFailures == {"patchErr", "deltaErr", "textErr"}
DiffCalls == { o \in {diffOut, hashOut} : o.called }

\* The delta indices whose patch, delta and text the store yields, in order.
RECURSIVE ExtractedFrom(_)
ExtractedFrom(i) ==
    IF i >= Len(Outcomes) THEN <<>>
    ELSE (IF Outcomes[i + 1] \in ExtractionFailures THEN <<>> ELSE <<i>>)
         \o ExtractedFrom(i + 1)

ExpectedDeltas(oid) ==
    [ m \in 1..Len(ExtractedFrom(0)) |->
        [MakeDelta(oid, ExtractedFrom(0)[m]) EXCEPT
            !.Patch = PatchText(oid, ExtractedFrom(0)[m])] ]

\* C1: when no loaded branch has HEAD's hash, or the branch selected as
\* current has a nil Upstream, Open seeds the walk with HEAD's target and
\* completes without error or crash.
C1_MissingUpstreamSeedsHead ==
    ( /\ SeedingDone
      /\ \/ \A i \in 1..Len(LoadedBranches) : LoadedBranches[i].Hash # HeadHash
         \/ opened.current # <<>> /\ opened.current[1].Upstream = <<>> )
    => opened.err = "nil" /\ opened.seed = <<store.head.oid>>

\* C2: when the local branch HEAD points to has a resolved Upstream, the
\* walk is seeded with that upstream's target, whatever the order of the
\* branches and whichever other branches share HEAD's hash.
C2_UpstreamSeedsWalk ==
    \A i \in 1..Len(LoadedBranches) :
        ( /\ SeedingDone
          /\ LoadedBranches[i].FullName = store.head.ref
          /\ LoadedBranches[i].Upstream # <<>> )
        => /\ opened.err = "nil"
           /\ opened.seed = <<HexValue(LoadedBranches[i].Upstream[1].Hash)>>

\* C3: on a valid repository, one with no commits included, Open returns
\* a Repository and no error, with non-nil Branches and Commits.
C3_ValidPathOpens ==
    ( /\ opened.called
      /\ \/ opened.failed = {}
         \/ store.n = 0 /\ opened.failed = {"head"} )
    => /\ opened.err = "nil"
       /\ opened.repo # <<>>
       /\ ~opened.repo[1].Branches.isNil
       /\ ~opened.repo[1].Commits.isNil

\* C4: when any load step fails, the history walk included, Open returns
\* an error and a nil Repository.
C4_FailedStepFailsOpen ==
    (opened.called /\ opened.failed # {})
    => opened.err = "error" /\ opened.repo = <<>>

\* C5 as stated: when extraction fails at an index the loop reaches, the
\* call succeeds with exactly the deltas of the extracted indices, in
\* order, and every index is processed.
C5_SkipAlwaysSucceeds ==
    \A o \in DiffCalls :
        ( /\ o.res.looped
          /\ \E i \in o.res.processed : Outcomes[i + 1] \in ExtractionFailures )
        => /\ o.res.err = "nil"
           /\ o.res.diff # <<>>
           /\ o.res.diff[1].deltas = ExpectedDeltas(HexValue(o.hash))
           /\ o.res.processed = 0..(Len(Outcomes) - 1)

\* C5 amended: the same, provided no patch release fails during the call.
C5_SkipSucceedsUnlessFreeFails ==
    \A o \in DiffCalls :
        ( /\ o.res.looped
          /\ \E i \in o.res.processed : Outcomes[i + 1] \in ExtractionFailures
          /\ \A j \in 1..Len(Outcomes) : Outcomes[j] # "freeErr" )
        => /\ o.res.err = "nil"
           /\ o.res.diff # <<>>
           /\ o.res.diff[1].deltas = ExpectedDeltas(HexValue(o.hash))
           /\ o.res.processed = 0..(Len(Outcomes) - 1)

\* A Diff skipped a failing index and returned the delta of a later one.
C5_Witness ==
    /\ diffOut.called /\ diffOut.res.err = "nil"
    /\ Len(Outcomes) >= 2
    /\ Outcomes[1] \in ExtractionFailures
    /\ Outcomes[Len(Outcomes)] = "ok"
    /\ Len(diffOut.res.diff[1].deltas) >= 1

\* C6: a returned Diff has as many deltas as patches, and the patch at a
\* position is the text of the file delta at that position.
C6_DeltasPatchesAligned ==
    \A o \in DiffCalls :
        o.res.err = "nil" =>
            LET d == o.res.diff[1]
            IN  /\ Len(d.deltas) = Len(d.patchs)
                /\ \A m \in 1..Len(d.patchs) :
                      /\ d.patchs[m] = d.deltas[m].Patch
                      /\ \E i \in 0..(Len(Outcomes) - 1) :
                            /\ d.deltas[m].NewFile = MakeDelta(HexValue(o.hash), i).NewFile
                            /\ d.patchs[m] = PatchText(HexValue(o.hash), i)

\* A Diff returned some deltas although the delta lookup failed at an index.
C6_Witness ==
    /\ diffOut.called /\ diffOut.res.err = "nil"
    /\ Len(diffOut.res.diff[1].deltas) >= 1
    /\ \E j \in 1..Len(Outcomes) : Outcomes[j] = "deltaErr"

\* C7: DiffFromHash on the hash of a walked commit and Diff on that walked
\* commit both fail, or both succeed with equal deltas, patches and stats.
C7_DiffFromHashAgrees ==
    (diffOut.called /\ hashOut.called /\ diffOut.hash = hashOut.hash)
    => /\ diffOut.res.err = hashOut.res.err
       /\ diffOut.res.diff = hashOut.res.diff

\* Both calls were made for the same commit and returned a delta.
C7_Witness ==
    /\ diffOut.called /\ hashOut.called /\ diffOut.hash = hashOut.hash
    /\ hashOut.res.err = "nil"
    /\ Len(hashOut.res.diff[1].deltas) >= 1
    /\ Len(hashOut.res.diff[1].stats) >= 2

\* C8: in the loaded branches a non-nil Upstream belongs to a branch that
\* is not remote and is itself remote; a remote branch has a nil Upstream.
C8_UpstreamOnlyOnLocal ==
    \A i \in 1..Len(LoadedBranches) :
        LET b == LoadedBranches[i]
        IN  /\ b.Upstream # <<>> => ~b.isRemote /\ b.Upstream[1].isRemote
            /\ b.isRemote => b.Upstream = <<>>

\* The branches were loaded with a tracking local branch and its remote.
C8_Witness ==
    /\ opened.called
    /\ \E i, j \in 1..Len(LoadedBranches) :
          /\ LoadedBranches[i].Upstream # <<>>
          /\ LoadedBranches[j].isRemote
          /\ LoadedBranches[j].FullName = LoadedBranches[i].Upstream[1].FullName

\* C9: every handle acquired in loadBranches, loadCommits or Diff has been
\* released when the function returns, on every exit path.
C9_HandlesReleased ==
    /\ opened.err # "panic" => opened.live = {}
    /\ \A o \in DiffCalls : o.res.err # "panic" => o.res.live = {}

\* C10: when releasing the patch of an index fails, the call returns an
\* error and a nil Diff and reaches no later index.
C10_FreeFailureAborts ==
    \A o \in DiffCalls :
        \A i \in o.res.processed :
            Outcomes[i + 1] = "freeErr"
            => /\ o.res.err = "error"
               /\ o.res.diff = <<>>
               /\ o.res.processed = 0..i

\* A release failed before the last index, after an index was skipped.
C10_Witness ==
    /\ diffOut.called /\ diffOut.res.looped
    /\ Len(Outcomes) >= 2
    /\ Outcomes[1] = "freeErr"
    /\ diffOut.res.err = "error"

====
